---------------------------- MODULE Spec2Model ----------------------------
(***************************************************************************)
(* Model of football_trends_analyzer.py: the fixture selection kept in the *)
(* session state, and the analysis of the main view (normalizers, weighted *)
(* score, probability conversion, draw rule, prediction summary).          *)
(*                                                                         *)
(* Python's float is the IEEE-754 binary64 format with round-to-nearest,   *)
(* ties-to-even.  The arithmetic of the script is modelled bit for bit: a  *)
(* float is a record [s, e, m] of value (-1)^s * m * 2^e, where m is zero  *)
(* or a 53-bit integer held as a little-endian sequence of 15-bit limbs    *)
(* (TLC's integers are 32 bits wide).  All values of the script stay far   *)
(* inside the normal exponent range, so subnormals, infinities and NaN do  *)
(* not occur.                                                              *)
(***************************************************************************)
EXTENDS Integers, Sequences, FiniteSets, TLC

---------------------------------------------------------------------------
(* Unbounded naturals as limb sequences (least significant limb first).    *)

LimbBits == 15

Base == 2^LimbBits

Limb(N, i) == IF i >= 1 /\ i <= Len(N) THEN N[i] ELSE 0

RECURSIVE Trim(_)
Trim(N) ==
    IF Len(N) > 0 /\ N[Len(N)] = 0 THEN Trim(SubSeq(N, 1, Len(N) - 1)) ELSE N

RECURSIVE BigOfInt(_)
BigOfInt(n) == IF n = 0 THEN <<>> ELSE <<n % Base>> \o BigOfInt(n \div Base)

RECURSIVE BitsOf(_)
BitsOf(x) == IF x = 0 THEN 0 ELSE 1 + BitsOf(x \div 2)

\* the number of zero limbs below the lowest nonzero limb of N # 0, from limb i on
RECURSIVE LowZeroLimbs(_, _)
LowZeroLimbs(N, i) == IF N[i] # 0 THEN 0 ELSE 1 + LowZeroLimbs(N, i + 1)

BitLen(N) == IF N = <<>> THEN 0 ELSE LimbBits * (Len(N) - 1) + BitsOf(N[Len(N)])

RECURSIVE AddFrom(_, _, _, _)
AddFrom(A, B, i, c) ==
    IF i > Len(A) /\ i > Len(B)
    THEN IF c = 0 THEN <<>> ELSE <<c>>
    ELSE LET s == Limb(A, i) + Limb(B, i) + c
         IN  <<s % Base>> \o AddFrom(A, B, i + 1, s \div Base)

BigAdd(A, B) == AddFrom(A, B, 1, 0)

RECURSIVE SubFrom(_, _, _, _)
SubFrom(A, B, i, c) ==
    IF i > Len(A)
    THEN <<>>
    ELSE LET s == Limb(A, i) - Limb(B, i) - c
         IN  IF s < 0
             THEN <<s + Base>> \o SubFrom(A, B, i + 1, 1)
             ELSE <<s>> \o SubFrom(A, B, i + 1, 0)

\* A - B for A >= B
BigSub(A, B) == Trim(SubFrom(A, B, 1, 0))

RECURSIVE CmpFrom(_, _, _)
CmpFrom(A, B, i) ==
    IF i = 0 THEN 0
    ELSE IF A[i] < B[i] THEN -1
    ELSE IF A[i] > B[i] THEN 1
    ELSE CmpFrom(A, B, i - 1)

\* -1, 0, 1 for trimmed A <, =, > B
BigCmp(A, B) ==
    IF Len(A) < Len(B) THEN -1
    ELSE IF Len(A) > Len(B) THEN 1
    ELSE CmpFrom(A, B, Len(A))

RECURSIVE MulSmallFrom(_, _, _, _)
MulSmallFrom(A, k, i, c) ==
    IF i > Len(A)
    THEN IF c = 0 THEN <<>> ELSE <<c>>
    ELSE LET p == A[i] * k + c
         IN  <<p % Base>> \o MulSmallFrom(A, k, i + 1, p \div Base)

\* A * k for 0 <= k < Base
BigMulSmall(A, k) == Trim(MulSmallFrom(A, k, 1, 0))

Zeros(n) == [i \in 1..n |-> 0]

RECURSIVE MulFrom(_, _, _)
MulFrom(A, B, i) ==
    IF i > Len(B)
    THEN <<>>
    ELSE BigAdd(Zeros(i - 1) \o MulSmallFrom(A, B[i], 1, 0), MulFrom(A, B, i + 1))

BigMul(A, B) == Trim(MulFrom(A, B, 1))

\* N * 2^d
ShiftLeft(N, d) ==
    IF N = <<>> THEN <<>>
    ELSE Zeros(d \div LimbBits) \o BigMulSmall(N, 2^(d % LimbBits))

\* N \div 2^d
ShiftRight(N, d) ==
    LET k == d \div LimbBits
        r == d % LimbBits
    IN  IF k >= Len(N) THEN <<>>
        ELSE Trim([i \in 1..(Len(N) - k) |->
                     (Limb(N, i + k) \div 2^r)
                       + (Limb(N, i + k + 1) % 2^r) * 2^(LimbBits - r)])

\* bit i (from 0) of N
BitAt(N, i) == (Limb(N, (i \div LimbBits) + 1) \div 2^(i % LimbBits)) % 2

\* some bit of N below position i is set
LowBitsSet(N, i) ==
    \/ \E j \in 1..(i \div LimbBits) : Limb(N, j) # 0
    \/ Limb(N, (i \div LimbBits) + 1) % 2^(i % LimbBits) # 0

\* The quotient limb of R by D (D's top limb has all LimbBits bits, R < D * Base):
\* the estimate from the top limbs is at most two too large.
RECURSIVE FixDigit(_, _, _)
FixDigit(R, D, q) ==
    IF BigCmp(BigMulSmall(D, q), R) = 1 THEN FixDigit(R, D, q - 1) ELSE q

QuotDigit(R, D) ==
    IF BigCmp(R, D) = -1 THEN 0
    ELSE LET n  == Len(D)
             t  == Limb(R, n + 1) * Base + Limb(R, n)
             q0 == t \div D[n]
         IN  FixDigit(R, D, IF q0 > Base - 1 THEN Base - 1 ELSE q0)

RECURSIVE DivFrom(_, _, _, _)
DivFrom(A, D, i, R) ==
    IF i = 0
    THEN [q |-> <<>>, r |-> R]
    ELSE LET R1   == Trim(<<A[i]>> \o R)
             qd   == QuotDigit(R1, D)
             rest == DivFrom(A, D, i - 1, BigSub(R1, BigMulSmall(D, qd)))
         IN  [q |-> rest.q \o <<qd>>, r |-> rest.r]

\* quotient and remainder of A by D # 0
BigDivMod(A, D) ==
    LET s  == LimbBits - BitsOf(D[Len(D)])
        dm == DivFrom(ShiftLeft(A, s), ShiftLeft(D, s), Len(ShiftLeft(A, s)), <<>>)
    IN  [q |-> Trim(dm.q), r |-> ShiftRight(dm.r, s)]

---------------------------------------------------------------------------
(* IEEE-754 binary64                                                       *)

Precision == 53

\* the one element of a singleton set: Value({F(x) : x \in {e}}) is F(e) with e
\* evaluated once, as an argument is in the script
Value(S) == CHOOSE r \in S : TRUE

FZero == [s |-> 0, e |-> 0, m |-> <<>>]

IsZero(a) == a.m = <<>>

\* the float nearest to (-1)^s * N * 2^e (plus a little, when sticky), ties to even
RoundFloat(s, N, e, sticky) ==
    LET L == BitLen(N)
    IN  IF L = 0 THEN FZero
        ELSE IF L <= Precision
        THEN [s |-> s, e |-> e - (Precision - L), m |-> ShiftLeft(N, Precision - L)]
        ELSE LET d   == L - Precision
                 q   == ShiftRight(N, d)
                 up  == /\ BitAt(N, d - 1) = 1
                        /\ (sticky \/ LowBitsSet(N, d - 1) \/ BitAt(q, 0) = 1)
                 q1  == IF up THEN BigAdd(q, <<1>>) ELSE q
             IN  IF BitLen(q1) > Precision
                 THEN [s |-> s, e |-> e + d + 1, m |-> ShiftRight(q1, 1)]
                 ELSE [s |-> s, e |-> e + d, m |-> q1]

\* float(n) for an int n >= 0
FromInt(n) == RoundFloat(0, BigOfInt(n), 0, FALSE)

FNeg(x) == Value({IF IsZero(a) THEN a ELSE [a EXCEPT !.s = 1 - a.s] : a \in {x}})

FAbs(a) == [a EXCEPT !.s = 0]

\* -1, 0, 1 for |a| <, =, > |b|
MagCmp(a, b) ==
    IF IsZero(a) THEN (IF IsZero(b) THEN 0 ELSE -1)
    ELSE IF IsZero(b) THEN 1
    ELSE IF a.e < b.e THEN -1
    ELSE IF a.e > b.e THEN 1
    ELSE BigCmp(a.m, b.m)

FCmp(x, y) ==
    Value({IF a.s = 0 /\ b.s = 0 THEN MagCmp(a, b)
           ELSE IF a.s = 1 /\ b.s = 1 THEN MagCmp(b, a)
           ELSE IF a.s = 1 THEN -1 ELSE 1 : a \in {x}, b \in {y}})

FLt(a, b) == FCmp(a, b) = -1

FLe(a, b) == FCmp(a, b) # 1

\* the exact sum of two nonzero floats, rounded
AddNonZero(a, b) ==
    LET em == IF a.e < b.e THEN a.e ELSE b.e
        Na == ShiftLeft(a.m, a.e - em)
        Nb == ShiftLeft(b.m, b.e - em)
        c  == BigCmp(Na, Nb)
    IN  IF a.s = b.s THEN RoundFloat(a.s, Trim(BigAdd(Na, Nb)), em, FALSE)
        ELSE IF c = 0 THEN FZero
        ELSE IF c = 1 THEN RoundFloat(a.s, BigSub(Na, Nb), em, FALSE)
        ELSE RoundFloat(b.s, BigSub(Nb, Na), em, FALSE)

FAdd(x, y) ==
    Value({IF IsZero(a) THEN b ELSE IF IsZero(b) THEN a ELSE AddNonZero(a, b) :
           a \in {x}, b \in {y}})

FSub(a, b) == FAdd(a, FNeg(b))

\* N without its z low limbs
DropLimbs(N, z) == SubSeq(N, z + 1, Len(N))

\* Low zero limbs of a mantissa are moved into the exponent before a product or
\* a quotient is formed: the exact value is the same, the operands are shorter.
MulNonZero(a, b) ==
    LET za == LowZeroLimbs(a.m, 1)
        zb == LowZeroLimbs(b.m, 1)
    IN  RoundFloat((a.s + b.s) % 2,
                   BigMul(DropLimbs(a.m, za), DropLimbs(b.m, zb)),
                   a.e + b.e + LimbBits * (za + zb), FALSE)

FMul(x, y) ==
    Value({IF IsZero(a) \/ IsZero(b) THEN FZero ELSE MulNonZero(a, b) :
           a \in {x}, b \in {y}})

\* a / b for b # 0: 57 extra quotient bits leave at least two below the 53 kept
DivNonZero(a, b) ==
    LET zb == LowZeroLimbs(b.m, 1)
    IN  Value({RoundFloat((a.s + b.s) % 2, dm.q, a.e - b.e - (Precision + 4),
                          dm.r # <<>>) :
               dm \in {BigDivMod(ShiftLeft(a.m, Precision + 4 - LimbBits * zb),
                                 DropLimbs(b.m, zb))}})

FDiv(x, y) ==
    Value({IF IsZero(a) THEN FZero ELSE DivNonZero(a, b) : a \in {x}, b \in {y}})

\* the literal n/d written in decimal (0.15 is Lit(15, 100))
Lit(n, d) == FDiv(FromInt(n), FromInt(d))

---------------------------------------------------------------------------
(* Python values: [k, v] with k the type and v the payload                 *)

PInt(n) == [k |-> "int", v |-> n]

PFloat(f) == [k |-> "float", v |-> f]

\* a str, as the sequence of its characters
PStr(chars) == [k |-> "str", v |-> chars]

\* a list of n entries
PList(n) == [k |-> "list", v |-> n]

PNone == [k |-> "none", v |-> 0]

\* a key that the dict does not hold
PAbsent == [k |-> "absent", v |-> 0]

\* a raised exception
PErr(name) == [k |-> "error", v |-> name]

IsErr(x) == x.k = "error"

IsNum(x) == x.k \in {"int", "float"}

ToFloat(x) == IF x.k = "int" THEN FromInt(x.v) ELSE x.v

\* bool(x)
Truthy(x) ==
    CASE x.k = "int"   -> x.v # 0
      [] x.k = "float" -> ~IsZero(x.v)
      [] x.k = "str"   -> Len(x.v) > 0
      [] x.k = "list"  -> x.v > 0
      [] x.k = "dict"  -> TRUE
      [] OTHER         -> FALSE

\* a / b
PyDiv(x, y) ==
    Value({IF IsErr(a) THEN a
           ELSE IF IsErr(b) THEN b
           ELSE IF ~IsNum(a) \/ ~IsNum(b) THEN PErr("TypeError")
           ELSE IF ~Truthy(b) THEN PErr("ZeroDivisionError")
           ELSE PFloat(FDiv(ToFloat(a), ToFloat(b))) : a \in {x}, b \in {y}})

\* a - b
PySub(x, y) ==
    Value({IF IsErr(a) THEN a
           ELSE IF IsErr(b) THEN b
           ELSE IF ~IsNum(a) \/ ~IsNum(b) THEN PErr("TypeError")
           ELSE PFloat(FSub(ToFloat(a), ToFloat(b))) : a \in {x}, b \in {y}})

\* max(a, b): b when b > a, else a
PyMax(x, y) ==
    Value({IF IsErr(a) THEN a
           ELSE IF IsErr(b) THEN b
           ELSE IF FLt(ToFloat(a), ToFloat(b)) THEN b ELSE a : a \in {x}, b \in {y}})

\* min(a, b): b when b < a, else a
PyMin(x, y) ==
    Value({IF IsErr(a) THEN a
           ELSE IF IsErr(b) THEN b
           ELSE IF FLt(ToFloat(b), ToFloat(a)) THEN b ELSE a : a \in {x}, b \in {y}})

\* len(x)
PyLen(x) ==
    CASE x.k = "list" -> PInt(x.v)
      [] x.k = "str"  -> PInt(Len(x.v))
      [] OTHER        -> PErr("TypeError")

F0 == FZero

F1 == FromInt(1)

---------------------------------------------------------------------------
(* Helpers of the script                                                   *)

\* safe_get(d, *keys, default): the value under the key path; the default when
\* the lookup raises (a key is missing, d is no dict)
safe_get(d, key, default) ==
    IF d.k # "dict" THEN default
    ELSE IF d.v[key].k = "absent" THEN default
    ELSE d.v[key]

RECURSIVE FormPoints(_, _, _, _)
FormPoints(chars, i, points, count) ==
    IF i > Len(chars) THEN [points |-> points, count |-> count]
    ELSE IF chars[i] = "W" THEN FormPoints(chars, i + 1, points + 3, count + 1)
    ELSE IF chars[i] = "D" THEN FormPoints(chars, i + 1, points + 1, count + 1)
    ELSE IF chars[i] = "L" THEN FormPoints(chars, i + 1, points + 0, count + 1)
    ELSE FormPoints(chars, i + 1, points, count)

\* normalize_form, had it divided by three points for every character
normalize_form_counting_all(form_str) ==
    IF ~Truthy(form_str) THEN PFloat(F0)
    ELSE IF form_str.k # "str" THEN PErr("TypeError")
    ELSE PyDiv(PInt(FormPoints(form_str.v, 1, 0, 0).points),
               PInt(3 * Len(form_str.v)))

\* A list or a dict is iterated as a str is; none of its entries is a letter.
normalize_form(form_str) ==
    IF ~Truthy(form_str) THEN PFloat(F0)
    ELSE IF form_str.k \in {"list", "dict"} THEN PFloat(F0)
    ELSE IF form_str.k # "str" THEN PErr("TypeError")
    ELSE Value({IF pc.count = 0 THEN PFloat(F0)
                ELSE PyDiv(PInt(pc.points), PInt(3 * pc.count)) :
                pc \in {FormPoints(form_str.v, 1, 0, 0)}})

GoalDenom == FromInt(3)

normalize_goal_rate(goals_per_match) ==
    IF goals_per_match.k = "none" THEN PFloat(F0)
    ELSE PyMin(PyMax(PyDiv(goals_per_match, PFloat(GoalDenom)), PFloat(F0)),
               PFloat(F1))

invert_normalize_goal_conceded(goals_conceded_per_match) ==
    IF goals_conceded_per_match.k = "none" THEN PFloat(F0)
    ELSE PyMin(PyMax(PySub(PFloat(F1),
                           PyDiv(goals_conceded_per_match, PFloat(GoalDenom))),
                     PFloat(F0)),
               PFloat(F1))

\* normalize_manager_rate without the min(..., 1.0)
normalize_manager_rate_unclamped(wins, played) ==
    IF ~Truthy(played) THEN PFloat(F0)
    ELSE PyMax(PyDiv(wins, played), PFloat(F0))

normalize_manager_rate(wins, played) ==
    IF ~Truthy(played) THEN PFloat(F0)
    ELSE PyMin(PyMax(PyDiv(wins, played), PFloat(F0)), PFloat(F1))

key_players == 5

normalize_player_availability(num_injuries) ==
    IF num_injuries.k = "none" THEN PFloat(F1)
    ELSE PyMax(PFloat(F0), PySub(PFloat(F1), PyDiv(num_injuries, PInt(key_players))))

---------------------------------------------------------------------------
(* Main view: metrics                                                      *)

\* the division of lines 231 and 244 without the test of the matches played
per_match_unguarded(total, played) ==
    IF total.k # "none" THEN PyDiv(total, played) ELSE PNone

\* goals per match (lines 230-235 and 243-248): None unless a total is there
\* and matches were played
per_match(total, played) ==
    IF total.k # "none" /\ Truthy(played) THEN PyDiv(total, played) ELSE PNone

\* len(inj) if inj else 0
num_inj(inj) == IF Truthy(inj) THEN PyLen(inj) ELSE PInt(0)

\* The metrics of one team, each a float or the exception its line raises.
TeamMetrics(stat, inj) ==
    LET form_raw == safe_get(stat, "form", PNone)
        total    == safe_get(stat, "goals_for", PNone)
        ga_total == safe_get(stat, "goals_against", PNone)
        matches  == safe_get(stat, "played", PNone)
        wins     == safe_get(stat, "wins", PInt(0))
        played   == safe_get(stat, "played", PInt(0))
    IN  Value({[form |-> normalize_form(form_raw),
                gpm  |-> gpm,
                gf   |-> IF IsErr(gpm) THEN gpm ELSE normalize_goal_rate(gpm),
                gapm |-> gapm,
                gc   |-> IF IsErr(gapm) THEN gapm
                         ELSE invert_normalize_goal_conceded(gapm),
                n    |-> n,
                pa   |-> IF IsErr(n) THEN n ELSE normalize_player_availability(n),
                mr   |-> normalize_manager_rate(wins, played)] :
               gpm  \in {per_match(total, matches)},
               gapm \in {per_match(ga_total, matches)},
               n    \in {num_inj(inj)}})

\* The statements that can raise, in the order the script runs them.
RaiseOrder(mA, mB, iA, iB) ==
    <<mA.form, mB.form, mA.gpm, mB.gpm, mA.gf, mB.gf, mA.gapm, mB.gapm,
      mA.gc, mB.gc, mA.n, mB.n, mA.pa, mB.pa, mA.mr, mB.mr>>

RECURSIVE FirstError(_, _)
FirstError(vals, i) ==
    IF i > Len(vals) THEN "none"
    ELSE IF IsErr(vals[i]) THEN vals[i].v
    ELSE FirstError(vals, i + 1)

\* a home team without the location advantage
location_unset == F0

location_A == F1

location_B == F0

\* valsA / valsB: the six normalized metrics in display order
Vals(location, m) == <<location, m.form.v, m.gf.v, m.gc.v, m.pa.v, m.mr.v>>

---------------------------------------------------------------------------
(* Weights, score, probabilities, draw rule, summary                       *)

weights ==
    [location |-> Lit(15, 100), form |-> Lit(25, 100), gf |-> Lit(20, 100),
     gc |-> Lit(15, 100), pa |-> Lit(15, 100), mr |-> Lit(10, 100)]

\* scoreA / scoreB: the products summed left to right
WeightedSum(w, vals) ==
    FAdd(FAdd(FAdd(FAdd(FAdd(FMul(w.location, vals[1]),
                             FMul(w.form, vals[2])),
                        FMul(w.gf, vals[3])),
                   FMul(w.gc, vals[4])),
              FMul(w.pa, vals[5])),
         FMul(w.mr, vals[6]))

Score(vals) == Value({WeightedSum(w, vals) : w \in {weights}})

draw_threshold == Lit(10, 100)

Half == Lit(5, 10)

\* probA, probB
Probabilities(sA, sB) ==
    Value({IF FLt(F0, sum)
           THEN [probA |-> FDiv(sA, sum), probB |-> FDiv(sB, sum)]
           ELSE [probA |-> Half, probB |-> Half] : sum \in {FAdd(sA, sB)}})

\* the threshold applied to the probabilities instead of the scores
DrawRuleOnProbabilities(sA, sB, pr) ==
    FLt(FAbs(FSub(pr.probA, pr.probB)), draw_threshold)

\* is_draw
DrawRule(sA, sB, pr) == FLt(FAbs(FSub(sA, sB)), draw_threshold)

\* the prediction summary box: "draw", or the team named as the winner
Summary(draw, pr) ==
    IF draw THEN "draw"
    ELSE IF FLt(pr.probB, pr.probA) THEN "A" ELSE "B"

Predictor(sA, sB) ==
    Value({[probA |-> pr.probA, probB |-> pr.probB,
            is_draw |-> DrawRule(sA, sB, pr),
            verdict |-> Summary(DrawRule(sA, sB, pr), pr)] :
           pr \in {Probabilities(sA, sB)}})

---------------------------------------------------------------------------
(* State                                                                   *)

VARIABLES
    selected_fixture,   \* st.session_state.selected_fixture
    statA, statB,       \* what get_team_statistics answers (cached) for the teams
    injA, injB,         \* what get_injuries answers (cached) for the teams
    stage,              \* how far the last run of the main view came
    raised,             \* the exception that ended it, or "none"
    valsA, valsB,       \* the metrics shown, <<>> when none were
    scoreA, scoreB, probA, probB, is_draw,
    verdict             \* the prediction summary shown, "none" when none was

vars == <<selected_fixture, statA, statB, injA, injB, stage, raised, valsA, valsB,
          scoreA, scoreB, probA, probB, is_draw, verdict>>

api == <<statA, statB, injA, injB>>

PDict(fields) == [k |-> "dict", v |-> fields]

\* bounds of the inputs
MaxPlayed == 1

MaxGoals == 3

MaxInjuries == 6

MaxFormLen == 2

GridSteps == 20

SeqsUpTo(S, n) == UNION {[1..k -> S] : k \in 0..n}

Stats(form, goals_for, goals_against, played, wins) ==
    PDict([form |-> form, goals_for |-> goals_for, goals_against |-> goals_against,
           played |-> played, wins |-> wins])

RECURSIVE CountOf(_, _, _)
CountOf(chars, cs, i) ==
    IF i > Len(chars) THEN 0
    ELSE (IF chars[i] \in cs THEN 1 ELSE 0) + CountOf(chars, cs, i + 1)

\* The statistics of a season of up to MaxPlayed matches: the form is the
\* sequence of the results, the wins are its W's.
SeasonStats ==
    {Stats(PStr(f), PInt(g), PInt(h), PInt(Len(f)), PInt(CountOf(f, {"W"}, 1))) :
        f \in SeqsUpTo({"W", "D", "L"}, MaxPlayed),
        g \in 0..MaxGoals, h \in 0..MaxGoals}

\* The same season seen from the other side
Mirror(stat) ==
    LET f  == stat.v.form.v
        f2 == [i \in 1..Len(f) |->
                 IF f[i] = "W" THEN "L" ELSE IF f[i] = "L" THEN "W" ELSE f[i]]
    IN  Stats(PStr(f2), stat.v.goals_against, stat.v.goals_for, stat.v.played,
              PInt(CountOf(f2, {"W"}, 1)))

\* nobody injured, or MaxInjuries players
SomeInjuries == {PList(0), PList(MaxInjuries)}

\* the outputs of a run that showed nothing
Blank ==
    [raised |-> "none", valsA |-> <<>>, valsB |-> <<>>, scoreA |-> F0,
     scoreB |-> F0, probA |-> F0, probB |-> F0, is_draw |-> FALSE,
     verdict |-> "none"]

Outputs(r) ==
    /\ raised = r.raised
    /\ valsA = r.valsA
    /\ valsB = r.valsB
    /\ scoreA = r.scoreA
    /\ scoreB = r.scoreB
    /\ probA = r.probA
    /\ probB = r.probB
    /\ is_draw = r.is_draw
    /\ verdict = r.verdict

\* Two teams of one league: the away team has the home team's statistics, or
\* the mirrored ones.
Init ==
    /\ selected_fixture = "None"
    /\ statA \in SeasonStats
    /\ statB \in {statA, Mirror(statA)}
    /\ injA \in SomeInjuries
    /\ injB \in SomeInjuries
    /\ stage = "idle"
    /\ Outputs(Blank)

\* What the API can answer for a field: a value, null, no such key, a value of
\* the wrong type.
RawForm == {PStr(<<"W", "D">>), PNone, PAbsent, PInt(MaxFormLen)}

RawTotal == {PInt(MaxGoals), PNone, PAbsent, PStr(<<"3">>)}

RawPlayed == {PInt(MaxPlayed), PInt(0), PNone, PAbsent, PStr(<<"1">>)}

RawWins == {PInt(MaxPlayed), PNone, PAbsent}

RawStats ==
    {Stats(f, g, h, p, w) : f \in RawForm, g \in RawTotal,
                            h \in {PInt(0), PStr(<<"3">>)}, p \in RawPlayed,
                            w \in RawWins}

\* a list, null, a number in the place of the list
RawInjuries == {PList(0), PList(MaxInjuries), PNone, PInt(MaxInjuries)}

\* a record without anything
NoStats == Stats(PAbsent, PAbsent, PAbsent, PAbsent, PAbsent)

\* statistics with every field as the API documents it
ValidStats ==
    Stats(PStr(<<"W", "D">>), PInt(MaxGoals), PInt(0), PInt(MaxPlayed),
          PInt(MaxPlayed))

\* Any answer for the statistics of the home team with a list of injuries, or
\* any answer for its injuries with valid statistics.
RawInputs ==
    ((RawStats \cup {PNone}) \X {PList(MaxInjuries)}) \cup ({ValidStats} \X RawInjuries)

\* The away team has the home team's answer or a record that holds nothing.
InitRaw ==
    /\ selected_fixture = "None"
    /\ \E input \in RawInputs : statA = input[1] /\ injA = input[2]
    /\ statB \in {statA, NoStats}
    /\ injB = PList(MaxInjuries)
    /\ stage = "idle"
    /\ Outputs(Blank)

\* Valid statistics, field by field: every form over the letters and one other
\* character, no form; every total of goals with every number of matches;
\* wins up to one more than the matches; every number of injured players.
TeamInputs ==
    {<<Stats(f, PInt(MaxGoals), PInt(0), PInt(MaxPlayed), PInt(MaxPlayed)), PList(0)>> :
        f \in {PStr(c) : c \in SeqsUpTo({"W", "D", "L", "X"}, MaxFormLen)}
              \cup {PNone, PAbsent}}
    \cup {<<Stats(PStr(<<"W", "D">>), PInt(g), PInt(h), PInt(p), PInt(w)), PList(n)>> :
        g \in 0..(MaxGoals + 1), h \in {0, MaxGoals + 1}, p \in 0..MaxPlayed,
        w \in 0..(MaxPlayed + 1), n \in {0, MaxInjuries}}
    \cup {<<ValidStats, PList(n)>> : n \in 0..MaxInjuries}

InitTeam ==
    /\ selected_fixture = "fixture"
    /\ \E input \in TeamInputs : statA = input[1] /\ injA = input[2]
    /\ statB = statA
    /\ injB = injA
    /\ stage = "idle"
    /\ Outputs(Blank)

\* the scores on a grid of GridSteps steps over [0, 1]
GridScores == {Lit(k, GridSteps) : k \in 0..GridSteps}

InitPredictor ==
    /\ selected_fixture = "fixture"
    /\ statA = ValidStats
    /\ statB = ValidStats
    /\ injA = PList(0)
    /\ injB = PList(0)
    /\ stage = "scored"
    /\ raised = "none"
    /\ valsA = <<>>
    /\ valsB = <<>>
    /\ scoreA \in GridScores
    /\ scoreB \in GridScores
    /\ probA = F0
    /\ probB = F0
    /\ is_draw = FALSE
    /\ verdict = "none"

---------------------------------------------------------------------------
(* One run of the main view (lines 166-370)                                *)

\* The run's stage and outputs.  An exception ends the run where it is raised:
\* in the metrics (lines 219-265) before anything is shown, in the injuries
\* lists (lines 343, 353) after the metrics and before the summary.
Shown(vA, vB, sA, sB, p) ==
    [raised |-> "none", valsA |-> vA, valsB |-> vB, scoreA |-> sA, scoreB |-> sB,
     probA |-> p.probA, probB |-> p.probB, is_draw |-> p.is_draw,
     verdict |-> p.verdict]

\* lines 294-370 for the scores of the two teams
Display(vA, vB, sA, sB) ==
    Value({IF IsErr(PyLen(injA)) \/ IsErr(PyLen(injB))
           THEN [stage |-> "raised",
                 out |-> [shown EXCEPT !.raised = "TypeError", !.verdict = "none"]]
           ELSE [stage |-> "done", out |-> shown] :
           shown \in {Shown(vA, vB, sA, sB, p) : p \in {Predictor(sA, sB)}}})

\* lines 268-370 for the metrics of the two teams
Scored(vA, vB) ==
    Value({Display(vA, vB, sA, sB) : sA \in {Score(vA)}, sB \in {Score(vB)}})

Analysis(mA, mB) ==
    IF FirstError(RaiseOrder(mA, mB, injA, injB), 1) # "none"
    THEN [stage |-> "raised",
          out |-> [Blank EXCEPT
                     !.raised = FirstError(RaiseOrder(mA, mB, injA, injB), 1)]]
    ELSE Value({Scored(vA, vB) : vA \in {Vals(location_A, mA)},
                                 vB \in {Vals(location_B, mB)}})

RunMainView(sel) ==
    IF sel = "None"
    THEN [stage |-> "idle", out |-> Blank]
    ELSE IF ~Truthy(statA) \/ ~Truthy(statB)
    THEN [stage |-> "no_stats", out |-> Blank]
    ELSE Value({Analysis(mA, mB) : mA \in {TeamMetrics(statA, injA)},
                                   mB \in {TeamMetrics(statB, injB)}})

MainView(sel) ==
    \E run \in {RunMainView(sel)} :
        /\ stage' = run.stage
        /\ raised' = run.out.raised
        /\ valsA' = run.out.valsA
        /\ valsB' = run.out.valsB
        /\ scoreA' = run.out.scoreA
        /\ scoreB' = run.out.scoreB
        /\ probA' = run.out.probA
        /\ probB' = run.out.probB
        /\ is_draw' = run.out.is_draw
        /\ verdict' = run.out.verdict

\* a fixture button of the sidebar is clicked (lines 150-151), the script runs on
SelectFixture ==
    /\ selected_fixture' = "fixture"
    /\ MainView("fixture")
    /\ UNCHANGED api

\* "Clear selection" (lines 158-159)
ClearSelection ==
    /\ selected_fixture # "None"
    /\ selected_fixture' = "None"
    /\ MainView("None")
    /\ UNCHANGED api

\* "Analyze Manual Teams" with both ids given (lines 177-186): the selection is
\* stored and the script runs again
AnalyzeManual ==
    /\ selected_fixture = "None"
    /\ selected_fixture' = "manual"
    /\ MainView("manual")
    /\ UNCHANGED api

Next == SelectFixture \/ ClearSelection \/ AnalyzeManual

Spec == Init /\ [][Next]_vars

\* the same script on any answer of the API
SpecRaw == InitRaw /\ [][Next]_vars

---------------------------------------------------------------------------
(* The parts of the analysis on their own                                  *)

\* lines 214-265: the six metrics of each team
Aggregate ==
    /\ stage = "idle"
    /\ stage' = "metrics"
    /\ \E mA \in {TeamMetrics(statA, injA)}, mB \in {TeamMetrics(statB, injB)} :
          /\ raised' = FirstError(RaiseOrder(mA, mB, injA, injB), 1)
          /\ valsA' = Vals(location_A, mA)
          /\ valsB' = Vals(location_B, mB)
    /\ UNCHANGED <<selected_fixture, api, scoreA, scoreB, probA, probB, is_draw,
                   verdict>>

NextTeam == Aggregate

SpecTeam == InitTeam /\ [][NextTeam]_vars

\* lines 293-302 and 364-370: probabilities, draw rule and summary of two scores
Predict ==
    /\ stage = "scored"
    /\ stage' = "predicted"
    /\ \E p \in {Predictor(scoreA, scoreB)} :
          /\ probA' = p.probA
          /\ probB' = p.probB
          /\ is_draw' = p.is_draw
          /\ verdict' = p.verdict
    /\ UNCHANGED <<selected_fixture, api, raised, valsA, valsB, scoreA, scoreB>>

NextPredictor == Predict

SpecPredictor == InitPredictor /\ [][NextPredictor]_vars


---------------------------------------------------------------------------
(* Properties                                                              *)

\* C1: whatever the two fetched records hold (values, nulls, missing keys,
\* values of the wrong type), a run of the analysis raises no error and ends
\* with six features for each team, two probabilities and a verdict.
C1_NeverRaises ==
    (selected_fixture # "None" /\ Truthy(statA) /\ Truthy(statB)) =>
        /\ stage = "done"
        /\ raised = "none"
        /\ Len(valsA) = 6
        /\ Len(valsB) = 6
        /\ verdict \in {"A", "B", "draw"}

\* C2: for valid statistics and any number of injured players each of the six
\* features of each team lies in [0, 1], also when the wins exceed the matches,
\* the goals per match exceed 3 or more than 5 players are injured.
C2_FeaturesInUnit ==
    stage = "metrics" =>
        /\ raised = "none"
        /\ \A i \in 1..6 : /\ FLe(F0, valsA[i]) /\ FLe(valsA[i], F1)
                           /\ FLe(F0, valsB[i]) /\ FLe(valsB[i], F1)

\* a team with more wins than matches, more than 3 goals a match and more than
\* 5 injured players: manager rate and goals-for are 1, availability is 0
C2_Witness ==
    /\ stage = "metrics"
    /\ statA.v.played.v > 0
    /\ statA.v.wins.v > statA.v.played.v
    /\ statA.v.goals_for.v > 3 * statA.v.played.v
    /\ injA.v > key_players
    /\ valsA[3] = F1
    /\ valsA[5] = F0
    /\ valsA[6] = F1

\* C3: the form feature is (3 * W's + D's) / (3 * number of W, D and L), other
\* characters counting neither as points nor in the denominator, and 0.0 for an
\* empty or absent form and for one without W, D or L.
C3_FormFormula ==
    stage = "metrics" =>
        LET form  == IF statA.v.form.k = "str" THEN statA.v.form.v ELSE <<>>
            valid == CountOf(form, {"W", "D", "L"}, 1)
            pts   == 3 * CountOf(form, {"W"}, 1) + CountOf(form, {"D"}, 1)
        IN  valsA[2] = IF valid = 0 THEN F0
                       ELSE FDiv(FromInt(pts), FromInt(3 * valid))

\* a draw next to an unrecognized character: 1 point of 3
C3_Witness ==
    /\ stage = "metrics"
    /\ statA.v.form = PStr(<<"D", "X">>)
    /\ valsA[2] = Lit(1, 3)

\* C4: the prediction is a draw exactly when |scoreA - scoreB| < 0.10, whatever
\* the probabilities; a winner is named exactly when it is no draw, and the
\* winner named has the strictly higher score.
C4_VerdictOnRawScores ==
    stage = "predicted" =>
        /\ is_draw <=> FLt(FAbs(FSub(scoreA, scoreB)), Lit(10, 100))
        /\ verdict = "draw" <=> is_draw
        /\ verdict \in {"A", "B"} <=> ~is_draw
        /\ verdict = "A" => FLt(scoreB, scoreA)
        /\ verdict = "B" => FLt(scoreA, scoreB)

\* a draw although the home probability is the higher one
C4_Witness ==
    /\ stage = "predicted"
    /\ is_draw
    /\ verdict = "draw"
    /\ FLt(probB, probA)

C6_ProbabilitiesSumToOne ==
    stage = "predicted" =>
        /\ FLe(F0, probA) /\ FLe(probA, F1)
        /\ FLe(F0, probB) /\ FLe(probB, F1)
        /\ FAdd(probA, probB) = F1
        /\ FLt(F0, FAdd(scoreA, scoreB)) =>
              /\ probA = FDiv(scoreA, FAdd(scoreA, scoreB))
              /\ probB = FSub(F1, probA)

\* C7: with the six weights summing to 1.00 the score of a team lies in [0, 1]
\* whenever its six features do.
C7_ScoreInUnit ==
    (/\ stage = "done"
     /\ \A i \in 1..6 : /\ FLe(F0, valsA[i]) /\ FLe(valsA[i], F1)
                        /\ FLe(F0, valsB[i]) /\ FLe(valsB[i], F1)) =>
        /\ FLe(F0, scoreA) /\ FLe(scoreA, F1)
        /\ FLe(F0, scoreB) /\ FLe(scoreB, F1)

\* C8: no run ends in a division by zero, and a team whose matches played are
\* zero, null or missing has the features goals-for, goals-against and manager
\* rate 0.0.
C8_ZeroDivisionGuarded ==
    /\ raised # "ZeroDivisionError"
    /\ (Len(valsA) = 6 /\ statA.v.played \in {PInt(0), PNone, PAbsent}) =>
          valsA[3] = F0 /\ valsA[4] = F0 /\ valsA[6] = F0
    /\ (Len(valsB) = 6 /\ statB.v.played \in {PInt(0), PNone, PAbsent}) =>
          valsB[3] = F0 /\ valsB[4] = F0 /\ valsB[6] = F0

\* a team with goals and wins on record and no match played
C8_Witness ==
    /\ stage = "done"
    /\ statA.v.played = PInt(0)
    /\ statA.v.goals_for = PInt(MaxGoals)
    /\ statA.v.wins = PInt(MaxPlayed)
    /\ valsA[3] = F0
    /\ valsA[4] = F0
    /\ valsA[6] = F0

\* C9: in every analysis the location feature of the home team is 1.0, so that
\* scoreA >= 0.15, scoreA + scoreB > 0, probA is scoreA / (scoreA + scoreB)
\* and not the 0.5 of the fallback, and probA > 0.
C9_HomeScorePositive ==
    Len(valsA) = 6 =>
        /\ valsA[1] = F1
        /\ FLe(Lit(15, 100), scoreA)
        /\ FLt(F0, FAdd(scoreA, scoreB))
        /\ probA = FDiv(scoreA, FAdd(scoreA, scoreB))
        /\ FLt(F0, probA)

\* two teams with nothing on record and all key players injured: the home team
\* scores the location weight alone
C9_Witness ==
    /\ stage = "done"
    /\ statB = NoStats
    /\ \A i \in 2..6 : valsA[i] = F0 /\ valsB[i] = F0
    /\ scoreA = Lit(15, 100)
    /\ scoreB = F0
    /\ probA = F1

\* C10: when the two teams have equal form, goals-for, goals-against,
\* availability and manager rate, scoreA - scoreB is exactly 0.15, the
\* prediction is no draw and the home team is named the winner.
C10_EqualFeatures ==
    (stage = "done" /\ \A i \in 2..6 : valsA[i] = valsB[i]) =>
        /\ FSub(scoreA, scoreB) = Lit(15, 100)
        /\ ~is_draw
        /\ verdict = "A"

=============================================================================
